---- MODULE Spec2Model ----
\* Lifecycle and concurrency model of the OPC UA components:
\*   - the OpcUa endpoint (endpoint/opcua/opcua.go): Init, Start, the cron
\*     callback, readNodes, AddRouter, RemoveRouter, Close, Destroy, GracefulStop;
\*   - the ReadNode rule node (x/opcuaRead): initClient, OnMsg, Destroy.
\* The two components are independent objects; each has its own variables.
EXTENDS Integers, Sequences, FiniteSets, TLC

\* ---------------------------------------------------------------- bounds
MaxTicks == 2       \* cron callbacks that may run at the same time
MaxStarts == 2      \* Start calls (each creates one cron driver)
MaxClients == 2     \* successful connects per component instance
MaxAdders == 2      \* goroutines calling AddRouter
MaxCallers == 2     \* goroutines calling ReadNode.initClient
MaxK == 3           \* node ids in one OnMsg read

Ticks == 1..MaxTicks
Crons == 1..MaxStarts
Clients == 1..MaxClients
Adders == 1..MaxAdders
Callers == 1..MaxCallers

\* x.Router == nil, x.cronTask == nil, no cached client
NoRouter == "nil"
Routers == {"r1", "r2"}
NoCron == 0
NoClient == 0
\* initClient's `return nil, err`
ConnectErr == -1

\* ------------------------------------------------------- endpoint state
VARIABLES
    intervalOk,   \* Config.Interval parses as a cron expression
    snInit,       \* SharedNode.IsInit()
    snClient,     \* the client instance the SharedNode holds (NoClient: none)
    connects,     \* clients created so far by initClient (the last client id)
    closeCalls,   \* per client: how often client.Close was invoked
    activeOps,    \* GracefulShutdown's active-operation counter
    Router,       \* x.Router
    cronTask,     \* x.cronTask (a driver id, NoCron: nil)
    taskId,       \* x.taskId
    cronRunning,  \* the cron drivers that are running
    cronEntries,  \* per driver: its registered entry ids
    startRet,     \* what the last Start returned: "none", "nil", "err"
    tickPc,       \* per cron callback goroutine: where it is
    tickRouter,   \* per callback: the router argument of its readNodes call
    stopPc,       \* Destroy/GracefulStop in progress: "idle", "wait", "close"
    timedOut,     \* the graceful stop in progress has reported a timeout
    adPc,         \* per AddRouter goroutine: "idle", "set" (past the checks), "ret"
    adArg,        \* per AddRouter goroutine: its router argument
    adRet,        \* per AddRouter goroutine at "ret": the id or the error returned
    stopCalls,    \* completed Close/Destroy/GracefulStop calls: 0, 1, 2 (two or more)
    tickClient,   \* per callback: the client its readNodes call reads with
    dropped       \* the client the SharedNode holds, once a read on it has failed
                  \* with a transport error (a set: empty or that client)

evars == <<intervalOk, snInit, snClient, connects, closeCalls, activeOps, Router,
           cronTask, taskId, cronRunning, cronEntries, startRet, tickPc,
           tickRouter, stopPc, timedOut, adPc, adArg, adRet, stopCalls,
           tickClient, dropped>>

\* ------------------------------------------------------- ReadNode state
VARIABLES
    client,       \* x.client of the ReadNode (NoClient: nil)
    nConnects,    \* clients created so far by initClient (the last client id)
    nCloseCalls,  \* per client: how often client.Close was invoked
    Locker,       \* x.Locker: the caller holding it, 0 when free
    callerPc,     \* per initClient caller: "idle", "lock", "locked", "ret"
    callerRet,    \* per caller at "ret": the client returned, or ConnectErr
    sawFail,      \* per caller waiting for the lock: the holder's connect failed
    destroyCalls, \* completed ReadNode.Destroy calls: 0, 1, 2 (two or more)
    omPath,       \* the last OnMsg: the branch it ended in
    omResults,    \* the last OnMsg: resp.Results (per node "good", "bad", "nil")
    omMarshalOk,  \* the last OnMsg: json.Marshal(data) succeeded
    omOutcome,    \* the last OnMsg: "success", "failure", "panic" ("none": no message yet)
    omRequest,    \* the last OnMsg: nodeIds, parsed from the message data
    omData,       \* the last OnMsg: the records given to msg.SetData (<<>>: not called)
    omSetData,    \* the last OnMsg: msg.SetData was called
    omErrs,       \* the last OnMsg: errs, as given to TellFailure("read failed: ...")
    nDropped      \* the clients on which a read has failed with a transport error

nvars == <<client, nConnects, nCloseCalls, Locker, callerPc, callerRet, sawFail,
           destroyCalls, omPath, omResults, omMarshalOk, omOutcome, omRequest,
           omData, omSetData, omErrs, nDropped>>

vars == <<evars, nvars>>

NInit ==
    /\ client = NoClient
    /\ nConnects = 0
    /\ nCloseCalls = [c \in Clients |-> 0]
    /\ Locker = 0
    /\ callerPc = [c \in Callers |-> "idle"]
    /\ callerRet = [c \in Callers |-> NoClient]
    /\ sawFail = [c \in Callers |-> FALSE]
    /\ destroyCalls = 0
    /\ omPath = "none"
    /\ omResults = <<>>
    /\ omMarshalOk = TRUE
    /\ omOutcome = "none"
    /\ omRequest = <<>>
    /\ omData = <<>>
    /\ omSetData = FALSE
    /\ omErrs = <<>>
    /\ nDropped = {}

EInit ==
    /\ intervalOk \in BOOLEAN
    /\ snInit = FALSE
    /\ snClient = NoClient
    /\ connects = 0
    /\ closeCalls = [c \in Clients |-> 0]
    /\ activeOps = 0
    /\ Router = NoRouter
    /\ cronTask = NoCron
    /\ taskId = 0
    /\ cronRunning = {}
    /\ cronEntries = [d \in Crons |-> {}]
    /\ startRet = "none"
    /\ tickPc = [t \in Ticks |-> "idle"]
    /\ tickRouter = [t \in Ticks |-> NoRouter]
    /\ stopPc = "idle"
    /\ timedOut = FALSE
    /\ adPc = [a \in Adders |-> "idle"]
    /\ adArg = [a \in Adders |-> NoRouter]
    /\ adRet = [a \in Adders |-> "none"]
    /\ stopCalls = 0
    /\ tickClient = [t \in Ticks |-> NoClient]
    /\ dropped = {}

\* ------------------------------------------------- the shared client
\* opcuaClient.DefaultHolder(x.Config).NewOpcUaClient(): a connect attempt.
\* ok: the server answered; a new client is then created.
CanConnect == connects < MaxClients

\* SharedNode.GetSafely / InitWithClose(initNow): the instance held, else one
\* connect attempt through initClient; the new instance is kept.
\* Gives <<client or NoClient on error, snClient', connects'>>.
Acquire(ok) ==
    IF snClient # NoClient THEN <<snClient, snClient, connects>>
    ELSE IF ok THEN <<connects + 1, connects + 1, connects + 1>>
    ELSE <<NoClient, NoClient, connects>>

\* The close callback given to InitWithClose: client.Close if client != nil.
CloseCallback(cl, calls) ==
    IF cl # NoClient THEN [calls EXCEPT ![cl] = @ + 1] ELSE calls

\* SharedNode.Close: hands the held instance to the close callback, once, and
\* forgets it; a no-op when nothing is held.
SharedNodeClose(cl, calls) ==
    IF cl # NoClient THEN CloseCallback(cl, calls) ELSE calls

\* ----------------------------------------------------------- OpcUa.Init
OpcUaInit ==
    /\ ~snInit
    /\ stopPc = "idle"
    /\ \E ok \in BOOLEAN :
        /\ ok => CanConnect
        /\ LET r == Acquire(ok) IN
            /\ snClient' = r[2]
            /\ connects' = r[3]
    /\ snInit' = TRUE
    /\ UNCHANGED <<nvars, stopCalls, tickClient, dropped>>
    /\ UNCHANGED <<intervalOk, closeCalls, activeOps, Router, cronTask, taskId,
                   cronRunning, cronEntries, startRet, tickPc, tickRouter,
                   stopPc, timedOut, adPc, adArg, adRet>>

\* ---------------------------------------------------------- OpcUa.Start
\* Start without stopping the previous driver
StartKeepsPrevious(running) == running

\* if x.cronTask != nil { x.cronTask.Stop() }
StartStopPrevious(running) ==
    IF cronTask # NoCron THEN running \ {cronTask} ELSE running

\* AddFunc registering the callback whatever the interval is
AddFuncIgnoresError == IF intervalOk THEN 1 ELSE 1

\* cron.AddFunc: parses the interval; (0, err) when it is invalid, else the
\* new entry's id, which is 1 in a fresh driver.
AddFuncId == IF intervalOk THEN 1 ELSE 0

\* What Start returns: err is reassigned by AddFunc's result.
StartReturn(initErr, addErr) ==
    IF addErr THEN "err" ELSE "nil"

Start ==
    /\ stopPc = "idle"
    /\ cronTask < MaxStarts
    /\ \E ok \in BOOLEAN :
        /\ ok => CanConnect
        /\ LET r == IF snInit THEN <<snClient, snClient, connects>>
                    ELSE Acquire(ok)
               initErr == ~snInit /\ r[1] = NoClient
               new == cronTask + 1
           IN
            /\ snClient' = r[2]
            /\ connects' = r[3]
            /\ snInit' = TRUE
            /\ cronTask' = new
            /\ taskId' = AddFuncId
            /\ cronEntries' = [cronEntries EXCEPT
                    ![new] = IF AddFuncId # 0 THEN {AddFuncId} ELSE {}]
            /\ cronRunning' = StartStopPrevious(cronRunning) \cup {new}
            /\ startRet' = StartReturn(initErr, AddFuncId = 0)
    /\ UNCHANGED <<nvars, stopCalls, tickClient, dropped>>
    /\ UNCHANGED <<intervalOk, closeCalls, activeOps, Router, tickPc,
                   tickRouter, stopPc, timedOut, adPc, adArg, adRet>>

\* ------------------------------------------------- the cron callback
\* The cron driver runs each due entry's callback in a goroutine of its own,
\* so callbacks may overlap. A driver fires only while it runs and holds an entry.
CronFires == \E d \in cronRunning : cronEntries[d] # {}

\* The callback without its nil check
CallbackAlwaysEnters(router) == TRUE

\* if x.Router != nil { _ = x.readNodes(x.Router) }
CallbackEnters(router) == router # NoRouter

\* readNodes without the deferred decrement
DeferredDecrementMissing(n) == n

\* defer x.GracefulShutdown.DecrementActiveOperations()
DeferredDecrement(n) == n - 1

\* Where a callback goroutine is when its callback has returned: not run yet
\* or returned from readNodes ("idle"), returned without calling readNodes
\* ("skipped").
TickReturned == {"idle", "skipped"}

TickFire(t) ==
    /\ tickPc[t] \in TickReturned
    /\ CronFires
    /\ tickPc' = [tickPc EXCEPT ![t] =
            IF CallbackEnters(Router) THEN "call" ELSE "skipped"]
    /\ UNCHANGED <<nvars, stopCalls, tickClient, dropped>>
    /\ UNCHANGED <<intervalOk, snInit, snClient, connects, closeCalls,
                   activeOps, Router, cronTask, taskId, cronRunning,
                   cronEntries, startRet, tickRouter, stopPc, timedOut, adPc,
                   adArg, adRet>>

\* readNodes is entered with x.Router read a second time as its argument;
\* its first statement increments the active-operation counter.
ReadNodesEnter(t) ==
    /\ tickPc[t] = "call"
    /\ tickRouter' = [tickRouter EXCEPT ![t] = Router]
    /\ activeOps' = activeOps + 1
    /\ tickPc' = [tickPc EXCEPT ![t] = "acquire"]
    /\ UNCHANGED <<nvars, stopCalls, tickClient, dropped>>
    /\ UNCHANGED <<intervalOk, snInit, snClient, connects, closeCalls, Router,
                   cronTask, taskId, cronRunning, cronEntries, startRet,
                   stopPc, timedOut, adPc, adArg, adRet>>

\* client, err := x.SharedNode.GetSafely(); on an error readNodes returns it.
ReadNodesAcquire(t) ==
    /\ tickPc[t] = "acquire"
    /\ \E ok \in BOOLEAN :
        /\ ok => (snClient # NoClient \/ CanConnect)
        /\ LET r == Acquire(ok) IN
            /\ snClient' = r[2]
            /\ connects' = r[3]
            /\ IF r[1] # NoClient
               THEN /\ tickPc' = [tickPc EXCEPT ![t] = "read"]
                    /\ tickClient' = [tickClient EXCEPT ![t] = r[1]]
                    /\ UNCHANGED <<activeOps, tickRouter>>
               ELSE /\ tickPc' = [tickPc EXCEPT ![t] = "idle"]
                    /\ tickRouter' = [tickRouter EXCEPT ![t] = NoRouter]
                    /\ activeOps' = DeferredDecrement(activeOps)
                    /\ UNCHANGED tickClient
    /\ UNCHANGED <<nvars, stopCalls, dropped>>
    /\ UNCHANGED <<intervalOk, snInit, closeCalls, Router, cronTask, taskId,
                   cronRunning, cronEntries, startRet, stopPc, timedOut, adPc,
                   adArg, adRet>>

\* readNodes going on after a failed read
ReadNodesIgnoresReadError(ok) == "dispatch"

\* if err != nil { ...; return err }, else the exchange is built and dispatched
ReadNodesAfterRead(ok) == IF ok THEN "dispatch" ELSE "return"

\* data, _, err := opcuaClient.Read(client, x.Config.NodeIds); on a transport
\* error readNodes returns it, else it builds the exchange.
ReadNodesRead(t) ==
    /\ tickPc[t] = "read"
    /\ \E ok \in BOOLEAN :
        /\ dropped' = IF ~ok /\ tickClient[t] = snClient
                       THEN {snClient} ELSE dropped
        /\ IF ReadNodesAfterRead(ok) = "dispatch"
           THEN /\ tickPc' = [tickPc EXCEPT ![t] = "dispatch"]
                /\ UNCHANGED <<activeOps, tickRouter>>
           ELSE /\ tickPc' = [tickPc EXCEPT ![t] = "idle"]
                /\ tickRouter' = [tickRouter EXCEPT ![t] = NoRouter]
                /\ activeOps' = DeferredDecrement(activeOps)
        /\ tickClient' = [tickClient EXCEPT ![t] = NoClient]
    /\ UNCHANGED <<nvars, stopCalls>>
    /\ UNCHANGED <<intervalOk, snInit, snClient, connects, closeCalls, Router,
                   cronTask, taskId, cronRunning, cronEntries, startRet,
                   stopPc, timedOut, adPc, adArg, adRet>>

\* x.DoProcess(ctx, router, exchange); return nil
ReadNodesDispatch(t) ==
    /\ tickPc[t] = "dispatch"
    /\ tickPc' = [tickPc EXCEPT ![t] = "idle"]
    /\ tickRouter' = [tickRouter EXCEPT ![t] = NoRouter]
    /\ activeOps' = DeferredDecrement(activeOps)
    /\ UNCHANGED <<nvars, stopCalls, tickClient, dropped>>
    /\ UNCHANGED <<intervalOk, snInit, snClient, connects, closeCalls, Router,
                   cronTask, taskId, cronRunning, cronEntries, startRet,
                   stopPc, timedOut, adPc, adArg, adRet>>

\* ----------------------------------------- AddRouter and RemoveRouter
\* AddRouter without the duplicate check
AddRouterChecksNilOnly(router, slot) ==
    IF router = NoRouter THEN "router cannot be nil" ELSE "pass"

\* The two checks AddRouter makes before it assigns x.Router.
AddRouterChecks(router, slot) ==
    IF router = NoRouter THEN "router cannot be nil"
    ELSE IF slot # NoRouter THEN "duplicate router"
    ELSE "pass"

\* AddRouter up to its assignment: an error is returned at once.
AddRouter(a, router) ==
    /\ adPc[a] = "idle"
    /\ adArg' = [adArg EXCEPT ![a] = router]
    /\ LET c == AddRouterChecks(router, Router) IN
        IF c = "pass"
        THEN /\ adPc' = [adPc EXCEPT ![a] = "set"]
             /\ UNCHANGED adRet
        ELSE /\ adPc' = [adPc EXCEPT ![a] = "ret"]
             /\ adRet' = [adRet EXCEPT ![a] = c]
    /\ UNCHANGED <<nvars, stopCalls, tickClient, dropped>>
    /\ UNCHANGED <<intervalOk, snInit, snClient, connects, closeCalls,
                   activeOps, Router, cronTask, taskId, cronRunning,
                   cronEntries, startRet, tickPc, tickRouter, stopPc, timedOut>>

\* x.Router = router; return router.GetId(), nil
AddRouterSet(a) ==
    /\ adPc[a] = "set"
    /\ Router' = adArg[a]
    /\ adRet' = [adRet EXCEPT ![a] = adArg[a]]
    /\ adPc' = [adPc EXCEPT ![a] = "ret"]
    /\ UNCHANGED <<nvars, stopCalls, tickClient, dropped>>
    /\ UNCHANGED <<intervalOk, snInit, snClient, connects, closeCalls,
                   activeOps, cronTask, taskId, cronRunning, cronEntries,
                   startRet, tickPc, tickRouter, stopPc, timedOut, adArg>>

\* The caller has the result and may call again.
AddRouterReturn(a) ==
    /\ adPc[a] = "ret"
    /\ adPc' = [adPc EXCEPT ![a] = "idle"]
    /\ adArg' = [adArg EXCEPT ![a] = NoRouter]
    /\ adRet' = [adRet EXCEPT ![a] = "none"]
    /\ UNCHANGED <<nvars, stopCalls, tickClient, dropped>>
    /\ UNCHANGED <<intervalOk, snInit, snClient, connects, closeCalls,
                   activeOps, Router, cronTask, taskId, cronRunning,
                   cronEntries, startRet, tickPc, tickRouter, stopPc, timedOut>>

RemoveRouter ==
    /\ Router # NoRouter
    /\ Router' = NoRouter
    /\ UNCHANGED <<nvars, stopCalls, tickClient, dropped>>
    /\ UNCHANGED <<intervalOk, snInit, snClient, connects, closeCalls,
                   activeOps, cronTask, taskId, cronRunning, cronEntries,
                   startRet, tickPc, tickRouter, stopPc, timedOut, adPc, adArg,
                   adRet>>

\* -------------------------------------- Close, Destroy, GracefulStop
\* x.cronTask.Remove(x.taskId) when both are set
CloseRemoveEntry(entries) ==
    IF taskId # 0 /\ cronTask # NoCron
    THEN [entries EXCEPT ![cronTask] = @ \ {taskId}]
    ELSE entries

\* x.cronTask.Stop() when a driver exists
CloseStopCron(running) ==
    IF cronTask # NoCron THEN running \ {cronTask} ELSE running

\* A call counter that stops at "two or more".
Counted(n) == IF n < 2 THEN n + 1 ELSE n

\* The body of OpcUa.Close: remove the entry, stop the driver, close the
\* SharedNode, which then holds no client.
CloseBody ==
    /\ cronEntries' = CloseRemoveEntry(cronEntries)
    /\ cronRunning' = CloseStopCron(cronRunning)
    /\ closeCalls' = SharedNodeClose(snClient, closeCalls)
    /\ snClient' = NoClient
    /\ dropped' = {}
    /\ stopCalls' = Counted(stopCalls)

Close ==
    /\ stopPc = "idle"
    /\ CloseBody
    /\ UNCHANGED <<nvars, tickClient>>
    /\ UNCHANGED <<intervalOk, snInit, connects, activeOps, Router, cronTask,
                   taskId, startRet, tickPc, tickRouter, stopPc, timedOut,
                   adPc, adArg, adRet>>

\* Destroy and GracefulStop both hand Close to GracefulShutdown.GracefulStop,
\* which first waits for the active operations.
GracefulBegin ==
    /\ stopPc = "idle"
    /\ stopPc' = "wait"
    /\ timedOut' = FALSE
    /\ UNCHANGED <<nvars, stopCalls, tickClient, dropped>>
    /\ UNCHANGED <<intervalOk, snInit, snClient, connects, closeCalls,
                   activeOps, Router, cronTask, taskId, cronRunning,
                   cronEntries, startRet, tickPc, tickRouter, adPc, adArg,
                   adRet>>

Destroy == GracefulBegin

GracefulStop == GracefulBegin

\* GracefulShutdown.GracefulStop waits until the counter is zero ...
GracefulWaitDrained ==
    /\ stopPc = "wait"
    /\ activeOps = 0
    /\ stopPc' = "close"
    /\ UNCHANGED <<nvars, stopCalls, tickClient, dropped>>
    /\ UNCHANGED <<intervalOk, snInit, snClient, connects, closeCalls,
                   activeOps, Router, cronTask, taskId, cronRunning,
                   cronEntries, startRet, tickPc, tickRouter, timedOut, adPc,
                   adArg, adRet>>

\* ... or until the timeout given to InitGracefulShutdown has elapsed, which
\* it reports.
GracefulWaitTimeout ==
    /\ stopPc = "wait"
    /\ activeOps > 0
    /\ stopPc' = "close"
    /\ timedOut' = TRUE
    /\ UNCHANGED <<nvars, stopCalls, tickClient, dropped>>
    /\ UNCHANGED <<intervalOk, snInit, snClient, connects, closeCalls,
                   activeOps, Router, cronTask, taskId, cronRunning,
                   cronEntries, startRet, tickPc, tickRouter, adPc, adArg,
                   adRet>>

\* ... and then calls the function it was given: func() { _ = x.Close() }
GracefulClose ==
    /\ stopPc = "close"
    /\ CloseBody
    /\ stopPc' = "idle"
    /\ timedOut' = FALSE
    /\ UNCHANGED <<nvars, tickClient>>
    /\ UNCHANGED <<intervalOk, snInit, connects, activeOps, Router, cronTask,
                   taskId, startRet, tickPc, tickRouter, adPc, adArg, adRet>>

\* ================================================== ReadNode (x/opcuaRead)
NCanConnect == nConnects < MaxClients

\* The unlocked `if x.client != nil` at the top of initClient races with the
\* locked assignment: it sees the current value, or still nil.
FastPathSees == {client, NoClient}

\* initClient without the second check
RecheckMissing(held) == NoClient

\* The second `if x.client != nil`, made while holding x.Locker.
RecheckFinds(held) == held

\* initClient up to x.Locker.Lock(): the fast path returns x.client, otherwise
\* the caller queues for the lock.
InitClientCall(c) ==
    /\ callerPc[c] = "idle"
    /\ \E seen \in FastPathSees :
        IF seen # NoClient
        THEN /\ callerPc' = [callerPc EXCEPT ![c] = "ret"]
             /\ callerRet' = [callerRet EXCEPT ![c] = seen]
        ELSE /\ callerPc' = [callerPc EXCEPT ![c] = "lock"]
             /\ UNCHANGED callerRet
    /\ UNCHANGED <<client, nConnects, nCloseCalls, Locker, sawFail,
                   destroyCalls, omPath, omResults, omMarshalOk, omOutcome,
                   omRequest, omData, omSetData, omErrs, nDropped>>
    /\ UNCHANGED evars

\* x.Locker.Lock() returns
InitClientLock(c) ==
    /\ callerPc[c] = "lock"
    /\ Locker = 0
    /\ Locker' = c
    /\ callerPc' = [callerPc EXCEPT ![c] = "locked"]
    /\ UNCHANGED <<client, nConnects, nCloseCalls, callerRet, sawFail,
                   destroyCalls, omPath, omResults, omMarshalOk, omOutcome,
                   omRequest, omData, omSetData, omErrs, nDropped>>
    /\ UNCHANGED evars

\* Holding the lock: the second check, else one connect attempt
\* (NewOpcUaClient); the deferred Unlock runs on every return.
InitClientLocked(c) ==
    /\ callerPc[c] = "locked"
    /\ \E ok \in BOOLEAN :
        /\ ok => NCanConnect
        /\ IF RecheckFinds(client) # NoClient
           THEN /\ callerRet' = [callerRet EXCEPT ![c] = RecheckFinds(client)]
                /\ UNCHANGED <<client, nConnects, sawFail>>
           ELSE IF ok
           THEN /\ client' = nConnects + 1
                /\ nConnects' = nConnects + 1
                /\ callerRet' = [callerRet EXCEPT ![c] = nConnects + 1]
                /\ UNCHANGED sawFail
           ELSE /\ callerRet' = [callerRet EXCEPT ![c] = ConnectErr]
                /\ sawFail' = [d \in Callers |->
                        IF callerPc[d] = "lock" THEN TRUE ELSE sawFail[d]]
                /\ UNCHANGED <<client, nConnects>>
    /\ Locker' = 0
    /\ callerPc' = [callerPc EXCEPT ![c] = "ret"]
    /\ UNCHANGED <<nCloseCalls, destroyCalls, omPath, omResults, omMarshalOk, omOutcome,
                   omRequest, omData, omSetData, omErrs, nDropped>>
    /\ UNCHANGED evars

\* initClient has returned to a caller that only wanted the client.
InitClientReturn(c) ==
    /\ callerPc[c] = "ret"
    /\ callerPc' = [callerPc EXCEPT ![c] = "idle"]
    /\ callerRet' = [callerRet EXCEPT ![c] = NoClient]
    /\ sawFail' = [sawFail EXCEPT ![c] = FALSE]
    /\ UNCHANGED <<client, nConnects, nCloseCalls, Locker, destroyCalls,
                   omPath, omResults, omMarshalOk, omOutcome,
                   omRequest, omData, omSetData, omErrs, nDropped>>
    /\ UNCHANGED evars

\* ReadNode.Destroy: close x.client if there is one, and forget it.
NodeDestroyCloses(held) == held # NoClient

\* Destroy without `x.client = nil`
NodeDestroyKeeps(held) == held

\* x.client = nil
NodeDestroyLeaves(held) == NoClient

NodeDestroy ==
    /\ IF NodeDestroyCloses(client)
       THEN /\ nCloseCalls' = [nCloseCalls EXCEPT ![client] = @ + 1]
            /\ client' = NodeDestroyLeaves(client)
       ELSE UNCHANGED <<client, nCloseCalls>>
    /\ destroyCalls' = Counted(destroyCalls)
    /\ UNCHANGED <<nConnects, Locker, callerPc, callerRet, sawFail, omPath,
                   omResults, omMarshalOk, omOutcome,
                   omRequest, omData, omSetData, omErrs, nDropped>>
    /\ UNCHANGED evars

\* ------------------------------------------------------ ReadNode.OnMsg
\* One entry of resp.Results: a DataValue with Status == ua.StatusOK ("good"),
\* one with any other status ("bad"), or a nil pointer ("nil").
Statuses == {"good", "bad", "nil"}

\* opcuaClient.Read answers a request for K node ids with K results.
ResultSeqs == UNION {[1..k -> Statuses] : k \in 0..MaxK}

\* The status test inverted
IsFailedResultInverted(result) == result # "nil" /\ result = "good"

\* if result != nil && result.Status != ua.StatusOK
IsFailedResult(result) == result # "nil" /\ result # "good"

\* The loop over resp.Results from index i on, with succ so far. The else
\* branch reads result.ServerTimestamp, which panics on a nil result.
RECURSIVE ScanResults(_, _, _)
ScanResults(res, i, succ) ==
    IF i > Len(res) THEN [succ |-> succ, panic |-> FALSE]
    ELSE IF IsFailedResult(res[i]) THEN ScanResults(res, i + 1, succ)
    ELSE IF res[i] = "nil" THEN [succ |-> succ, panic |-> TRUE]
    ELSE ScanResults(res, i + 1, TRUE)

\* OnMsg from the return of x.SharedNode.Get() on: the branch taken and the
\* signal given (TellSuccess, TellFailure, or none when it panics).
OnMsgRun(acquired, parsed, readOk, res, marshalOk) ==
    IF ~acquired THEN [path |-> "acquire_error", outcome |-> "failure"]
    ELSE IF ~parsed THEN [path |-> "parse_error", outcome |-> "failure"]
    ELSE IF ~readOk THEN [path |-> "transport_error", outcome |-> "failure"]
    ELSE LET scan == ScanResults(res, 1, FALSE) IN
        IF scan.panic THEN [path |-> "nil_result", outcome |-> "panic"]
        ELSE IF scan.succ
        THEN IF marshalOk THEN [path |-> "success", outcome |-> "success"]
             ELSE [path |-> "marshal_error", outcome |-> "failure"]
        ELSE [path |-> "all_failed", outcome |-> "failure"]

\* The paths on which opcuaClient.Read returned a response.
ReadPaths == {"nil_result", "success", "marshal_error", "all_failed"}

\* msg.GetData() parsed as a JSON list of node ids: nodeIds. A node id
\* "ns=3;i=n" is written n; a message asks for up to MaxK distinct ids, in
\* ascending or in descending order.
RequestSeqs ==
    {[i \in 1..k |-> i] : k \in 0..MaxK} \cup {[i \in 1..k |-> k + 1 - i] : k \in 0..MaxK}

\* The data opcuaClient.Read returns: one record per requested id, in the
\* order of the request, each made from the same slot of the response.
ReadData(req) ==
    [i \in 1..Len(req) |-> [NodeId |-> req[i], slot |-> i, by |-> "Read"]]

\* errs := make([]string, 10): ten empty strings
ErrsLen == 10
ErrsMake == [i \in 1..ErrsLen |-> ""]

\* if len(errs) < 10
ErrsLimit == 10

\* result.Status.Error()
StatusError(result) == "Status" \o result

\* if len(errs) < 10 { errs = append(errs, result.Status.Error()) }
ErrsAppend(errs, result) ==
    IF Len(errs) < ErrsLimit THEN Append(errs, StatusError(result)) ELSE errs

\* The loop's effect on errs.
RECURSIVE ScanErrs(_, _, _)
ScanErrs(res, i, errs) ==
    IF i > Len(res) THEN errs
    ELSE IF IsFailedResult(res[i])
    THEN ScanErrs(res, i + 1, ErrsAppend(errs, res[i]))
    ELSE IF res[i] = "nil" THEN errs
    ELSE ScanErrs(res, i + 1, errs)

\* The record built with the first node's identity
BuildRecordFirst(data, i) ==
    [NodeId |-> data[1].NodeId, slot |-> i, by |-> "OnMsg"]

\* d := opcuaClient.Data{NodeId: data[i].NodeId, ..., Value: result.Value...}
\* with result the i-th entry of resp.Results
BuildRecord(data, i) ==
    [NodeId |-> data[i].NodeId, slot |-> i, by |-> "OnMsg"]

\* The loop's effect on data: data[i] = d for each result that is not failed;
\* the other positions stay as Read returned them.
RECURSIVE ScanData(_, _, _)
ScanData(res, data, i) ==
    IF i > Len(res) THEN data
    ELSE IF IsFailedResult(res[i]) THEN ScanData(res, data, i + 1)
    ELSE IF res[i] = "nil" THEN data
    ELSE ScanData(res, [data EXCEPT ![i] = BuildRecord(data, i)], i + 1)

\* OnMsg for a message whose node id list is one of requests.
OnMsgOf(c, requests) ==
    /\ callerPc[c] = "ret"
    /\ \E parsed, readOk, marshalOk \in BOOLEAN, req \in requests :
       \E res \in [1..Len(req) -> Statuses] :
        /\ res \in ResultSeqs
        /\ LET r == OnMsgRun(callerRet[c] # ConnectErr, parsed, readOk, res, marshalOk)
           IN
            /\ omPath' = r.path
            /\ omOutcome' = r.outcome
            /\ omResults' = IF r.path \in ReadPaths THEN res ELSE <<>>
            /\ omMarshalOk' = IF r.path \in {"success", "marshal_error"}
                              THEN marshalOk ELSE TRUE
            /\ omRequest' = IF r.path \in ReadPaths \cup {"transport_error"}
                            THEN req ELSE <<>>
            /\ omSetData' = (r.path = "success")
            /\ omData' = IF r.path = "success"
                         THEN ScanData(res, ReadData(req), 1) ELSE <<>>
            /\ omErrs' = IF r.path = "all_failed"
                         THEN ScanErrs(res, 1, ErrsMake) ELSE <<>>
            /\ nDropped' = IF r.path = "transport_error"
                           THEN nDropped \cup {callerRet[c]} ELSE nDropped
    /\ callerPc' = [callerPc EXCEPT ![c] = "idle"]
    /\ callerRet' = [callerRet EXCEPT ![c] = NoClient]
    /\ sawFail' = [sawFail EXCEPT ![c] = FALSE]
    /\ UNCHANGED <<client, nConnects, nCloseCalls, Locker, destroyCalls>>
    /\ UNCHANGED evars

OnMsg(c) == OnMsgOf(c, RequestSeqs)

\* ------------------------------------------------------ specification
Init == EInit /\ NInit

\* The endpoint's lifecycle: Init, Start, the cron callbacks, the shutdown
\* calls; the engine attaches the router "r1".
Next ==
    \/ OpcUaInit
    \/ Start
    \/ \E t \in Ticks : TickFire(t)
    \/ \E t \in Ticks : ReadNodesEnter(t)
    \/ \E t \in Ticks : ReadNodesAcquire(t)
    \/ \E t \in Ticks : ReadNodesRead(t)
    \/ \E t \in Ticks : ReadNodesDispatch(t)
    \/ AddRouter(1, "r1")
    \/ AddRouterSet(1)
    \/ AddRouterReturn(1)
    \/ Close
    \/ Destroy
    \/ GracefulStop
    \/ GracefulWaitDrained
    \/ GracefulWaitTimeout
    \/ GracefulClose

Spec == Init /\ [][Next]_vars

\* The endpoint's router slot: concurrent AddRouter calls, RemoveRouter and
\* a cron callback of a started endpoint.
NextRouter ==
    \/ Start
    \/ TickFire(1)
    \/ ReadNodesEnter(1)
    \/ ReadNodesAcquire(1)
    \/ ReadNodesRead(1)
    \/ ReadNodesDispatch(1)
    \/ \E a \in Adders, r \in Routers \cup {NoRouter} : AddRouter(a, r)
    \/ \E a \in Adders : AddRouterSet(a)
    \/ \E a \in Adders : AddRouterReturn(a)
    \/ RemoveRouter

SpecRouter == Init /\ [][NextRouter]_vars

\* The ReadNode's client: concurrent initClient callers and Destroy.
NextNode ==
    \/ \E c \in Callers : InitClientCall(c)
    \/ \E c \in Callers : InitClientLock(c)
    \/ \E c \in Callers : InitClientLocked(c)
    \/ \E c \in Callers : InitClientReturn(c)
    \/ NodeDestroy

SpecNode == Init /\ [][NextNode]_vars

\* ReadNode.OnMsg, one message at a time.
NextOnMsg ==
    \/ InitClientCall(1)
    \/ InitClientLock(1)
    \/ InitClientLocked(1)
    \/ OnMsg(1)

SpecOnMsg == Init /\ [][NextOnMsg]_vars

\* Shutdown of both components: the endpoint's lifecycle with one cron
\* callback at a time, and a ReadNode with one caller.
NextClose ==
    \/ OpcUaInit
    \/ Start
    \/ TickFire(1)
    \/ ReadNodesEnter(1)
    \/ ReadNodesAcquire(1)
    \/ ReadNodesRead(1)
    \/ ReadNodesDispatch(1)
    \/ AddRouter(1, "r1")
    \/ AddRouterSet(1)
    \/ AddRouterReturn(1)
    \/ Close
    \/ Destroy
    \/ GracefulStop
    \/ GracefulWaitDrained
    \/ GracefulWaitTimeout
    \/ GracefulClose
    \/ InitClientCall(1)
    \/ InitClientLock(1)
    \/ InitClientLocked(1)
    \/ InitClientReturn(1)
    \/ NodeDestroy

SpecClose == Init /\ [][NextClose]_vars

\* Reads of both components: a started endpoint with one cron callback at a
\* time, and a ReadNode handling one message at a time for a two-node list.
NextRead ==
    \/ Start
    \/ AddRouter(1, "r1")
    \/ AddRouterSet(1)
    \/ AddRouterReturn(1)
    \/ TickFire(1)
    \/ ReadNodesEnter(1)
    \/ ReadNodesAcquire(1)
    \/ ReadNodesRead(1)
    \/ ReadNodesDispatch(1)
    \/ InitClientCall(1)
    \/ InitClientLock(1)
    \/ InitClientLocked(1)
    \/ OnMsgOf(1, {<<1, 2>>})

SpecRead == Init /\ [][NextRead]_vars

\* ================================================================ claims
\* The cron callbacks that are inside readNodes: past the increment of the
\* active-operation counter and before the deferred decrement.
InFlight == {t \in Ticks : tickPc[t] \in {"acquire", "read", "dispatch"}}

\* C1: when Destroy or GracefulStop starts to wait for the active operations
\* the cron driver has already been stopped (no driver can fire a callback),
\* and from then until the shutdown call returns no callback enters readNodes
\* (the counter is not incremented).
C1_SchedulerStoppedFirst ==
    [][ /\ (stopPc = "idle" /\ stopPc' = "wait") => ~CronFires'
        /\ stopPc # "idle" => activeOps' <= activeOps ]_vars

\* C2: the function given to the graceful stop (Close, and with it the close
\* of the shared client) is called only when no readNodes call is in flight
\* or the timeout has elapsed, and a wait that ends with calls still in
\* flight reports the timeout.
C2_CloseWaitsForReads ==
    [][ /\ (stopPc = "close" /\ stopPc' = "idle") => (activeOps = 0 \/ timedOut)
        /\ (stopPc = "wait" /\ stopPc' = "close" /\ activeOps > 0) => timedOut'
      ]_vars

\* C3: the active-operation counter is never negative and equals the number
\* of readNodes calls in flight.
C3_CounterCountsReads ==
    /\ activeOps >= 0
    /\ activeOps = Cardinality(InFlight)

\* C3 witness: two overlapping callbacks are inside readNodes, one holding
\* the client and one about to acquire it.
C3_Witness ==
    /\ activeOps = 2
    /\ tickPc[1] = "read"
    /\ tickPc[2] = "acquire"
    /\ connects = 1

\* The clients initClient has created that ReadNode.Destroy has not closed.
NodeOpenClients == {k \in Clients : k <= nConnects /\ nCloseCalls[k] = 0}

\* C4: every client initClient has connected and that was not destroyed since
\* is the one x.client (so concurrent callers that find no client make at
\* most one successful connect between them), every caller is handed that
\* instance, and without a Destroy there is never a second connect.
C4_SingleConnect ==
    /\ NodeOpenClients \subseteq {client}
    /\ \A c \in Callers :
        (callerPc[c] = "ret" /\ callerRet[c] \in NodeOpenClients)
            => callerRet[c] = client
    /\ destroyCalls = 0 =>
        /\ nConnects <= 1
        /\ \A c \in Callers : callerPc[c] = "ret" => callerRet[c] \in {1, ConnectErr}

\* C4 witness: caller 1 has connected and returned the client while caller 2,
\* which had queued for the lock, now holds the lock and finds that client.
C4_Witness ==
    /\ destroyCalls = 0
    /\ nConnects = 1
    /\ client = 1
    /\ callerPc[1] = "ret" /\ callerRet[1] = 1
    /\ callerPc[2] = "locked"

\* C5: a caller that was waiting for the lock while the holder's connect
\* attempt failed is handed that error, without a connect attempt of its own.
C5_WaitersShareError ==
    \A c \in Callers :
        (sawFail[c] /\ callerPc[c] = "ret") => callerRet[c] = ConnectErr

\* The clients the endpoint has connected.
EndpointClients == {k \in Clients : k <= connects}

\* The clients the ReadNode has connected.
NodeClients == {k \in Clients : k <= nConnects}

\* C6: however many shutdown calls are made, client.Close is invoked exactly
\* once for a client that was connected and is no longer held, never twice,
\* and never for a client that was not connected; a shutdown call leaves no
\* client held and, when none is held, invokes nothing.
C6_TeardownOnce ==
    /\ [](\A k \in Clients :
            /\ closeCalls[k] = (IF k \in EndpointClients /\ k # snClient THEN 1 ELSE 0)
            /\ nCloseCalls[k] = (IF k \in NodeClients /\ k # client THEN 1 ELSE 0))
    /\ [][ /\ stopCalls' # stopCalls =>
                /\ snClient' = NoClient
                /\ snClient = NoClient => closeCalls' = closeCalls
           /\ destroyCalls' # destroyCalls =>
                /\ client' = NoClient
                /\ client = NoClient => nCloseCalls' = nCloseCalls ]_vars

\* C6 witness: the endpoint and the ReadNode have each connected one client
\* and have each been shut down twice or more; each client was closed once.
C6_Witness ==
    /\ stopCalls = 2 /\ connects = 1 /\ closeCalls[1] = 1
    /\ destroyCalls = 2 /\ nConnects = 1 /\ nCloseCalls[1] = 1

\* A step of Start: it creates the next cron driver.
StartStep == cronTask' # cronTask

\* C7 as stated: after a second or later Start only the driver that Start
\* created is running, every earlier driver is stopped, and the new driver
\* holds exactly one entry.
C7_OneSchedule ==
    [][ (StartStep /\ cronTask' >= 2) =>
            /\ cronRunning' = {cronTask'}
            /\ \A d \in Crons : d < cronTask' => d \notin cronRunning'
            /\ Cardinality(cronEntries'[cronTask']) = 1 ]_vars

\* C7 amended: after a second or later Start only the driver that Start
\* created is running, every earlier driver is stopped, and the new driver
\* holds exactly one entry if the interval expression is valid and none if
\* it is not.
C7_OneScheduleIfValid ==
    [][ (StartStep /\ cronTask' >= 2) =>
            /\ cronRunning' = {cronTask'}
            /\ \A d \in Crons : d < cronTask' => d \notin cronRunning'
            /\ Cardinality(cronEntries'[cronTask']) = (IF intervalOk THEN 1 ELSE 0)
            /\ taskId' \in cronEntries'[cronTask'] \cup {0} ]_vars

\* C7 witness: Start ran twice with a valid interval; driver 1 is stopped and
\* driver 2 runs with its one entry.
C7_Witness ==
    /\ intervalOk
    /\ cronTask = 2
    /\ cronRunning = {2}
    /\ cronEntries[2] = {1}
    /\ stopCalls = 0

\* C8: an AddRouter call with a nil router returns an error and leaves the
\* slot as it is; a call made while a router is attached returns "duplicate
\* router" and leaves the attached router as it is; a call made on an empty
\* slot goes on to attach its router and returns that router's id.
C8_AddRouter ==
    [][ \A a \in Adders :
          /\ (adPc[a] = "idle" /\ adPc'[a] # "idle") =>
                /\ Router' = Router
                /\ adArg'[a] = NoRouter =>
                     (adPc'[a] = "ret" /\ adRet'[a] = "router cannot be nil")
                /\ (adArg'[a] # NoRouter /\ Router # NoRouter) =>
                     (adPc'[a] = "ret" /\ adRet'[a] = "duplicate router")
                /\ (adArg'[a] # NoRouter /\ Router = NoRouter) => adPc'[a] = "set"
          /\ (adPc[a] = "set" /\ adPc'[a] # "set") =>
                /\ adPc'[a] = "ret"
                /\ Router' = adArg[a]
                /\ adRet'[a] = adArg[a] ]_vars

\* C8 witness: with router r1 attached, AddRouter(r2) has returned the
\* duplicate error and r1 is still attached.
C8_Witness ==
    /\ Router = "r1"
    /\ adPc[1] = "ret"
    /\ adArg[1] = "r2"
    /\ adRet[1] = "duplicate router"

\* C9: a callback that fires while no router is attached returns at once: it
\* does not enter readNodes, and leaves the counter, the shared client and
\* every other callback as they are.
C9_TickWithoutRouter ==
    [][ \A t \in Ticks :
          (tickPc[t] \in TickReturned /\ tickPc'[t] # tickPc[t]
                /\ Router = NoRouter) =>
            /\ tickPc'[t] = "skipped"
            /\ UNCHANGED <<activeOps, snClient, connects, closeCalls,
                           tickRouter, Router>> ]_vars

\* C9 witness: the driver runs, no router is attached, and a callback has
\* fired and returned without a read.
C9_Witness ==
    /\ CronFires
    /\ Router = NoRouter
    /\ tickPc[1] = "skipped"
    /\ activeOps = 0
    /\ connects = 0

\* Whether resp.Results holds a result of the given kind.
HasResult(res, kind) == \E i \in 1..Len(res) : res[i] = kind

\* C10 as stated: when the read's transport succeeded and every node has a
\* result, OnMsg tells success exactly if some node's status is good, and
\* tells failure if all are bad.
C10_SuccessIffSomeGood ==
    (omPath \in ReadPaths /\ ~HasResult(omResults, "nil")) =>
        /\ (omOutcome = "success") <=> HasResult(omResults, "good")
        /\ ~HasResult(omResults, "good") => omOutcome = "failure"

\* C10 amended: when the read's transport succeeded, OnMsg tells success
\* exactly if some node's status is good, no result is nil and the data
\* marshals; it tells failure exactly if no result is nil and either no
\* status is good or the marshalling fails; with a nil result it panics and
\* tells nothing.
C10_SuccessIffSomeGoodAndMarshals ==
    omPath \in ReadPaths =>
        /\ (omOutcome = "success") <=>
             (HasResult(omResults, "good") /\ ~HasResult(omResults, "nil")
                /\ omMarshalOk)
        /\ (omOutcome = "failure") <=>
             (~HasResult(omResults, "nil")
                /\ (~HasResult(omResults, "good") \/ ~omMarshalOk))
        /\ (omOutcome = "panic") <=> HasResult(omResults, "nil")

\* C10 witness: a read of three nodes, one good and two bad, told success.
C10_Witness ==
    /\ omPath \in ReadPaths
    /\ omResults = <<"bad", "good", "bad">>
    /\ omOutcome = "success"

\* The positions of resp.Results with good status.
GoodPositions(res) == {i \in 1..Len(res) : res[i] = "good"}

\* C11: on a partial success (some nodes good, some bad) the data written
\* into the success message holds one record for each node with good status
\* and no record for a node with bad status.
C11_OnlyGoodReadings ==
    (omOutcome = "success" /\ HasResult(omResults, "bad")) =>
        /\ Len(omData) = Cardinality(GoodPositions(omResults))
        /\ \A i \in 1..Len(omData) :
              \E j \in GoodPositions(omResults) : omData[i].NodeId = omRequest[j]

\* C12: the data of a success message has as many positions as the request,
\* and the record at position i carries the i-th requested node id and was
\* built from the i-th slot of the response.
C12_AlignedPositions ==
    omOutcome = "success" =>
        /\ omSetData
        /\ Len(omData) = Len(omRequest)
        /\ \A i \in 1..Len(omData) :
              /\ omData[i].NodeId = omRequest[i]
              /\ omData[i].slot = i

\* C12 witness: a request of three ids in descending order, the first and
\* the last read with good status, told success.
C12_Witness ==
    /\ omOutcome = "success"
    /\ omRequest = <<3, 2, 1>>
    /\ omResults = <<"good", "bad", "good">>
    /\ omData[3].NodeId = 1 /\ omData[3].by = "OnMsg"

\* C13: when every node fails with a status error, the errs given to
\* TellFailure names the status error of each failing node, up to the first
\* ten of them.
C13_ErrorNamesReasons ==
    omPath = "all_failed" =>
        \A i \in 1..Len(omResults) :
            i <= ErrsLimit =>
                \E j \in 1..Len(omErrs) : omErrs[j] = StatusError(omResults[i])

\* C14: a transport error of the read aborts the operation: OnMsg tells
\* failure and does not set the message data, and readNodes returns the error
\* (the callback is over, the deferred decrement has run) without going on
\* to dispatch to the router.
C14_TransportErrorAborts ==
    /\ [](omPath = "transport_error" =>
            (omOutcome = "failure" /\ ~omSetData /\ omData = <<>>))
    /\ [][ \A t \in Ticks :
            (tickPc[t] = "read" /\ dropped' # dropped) =>
                /\ tickPc'[t] = "idle"
                /\ tickRouter'[t] = NoRouter
                /\ activeOps' = activeOps - 1
                /\ Router' = Router ]_vars

\* C14 witness: a callback's read and a message's read have both failed with
\* a transport error.
C14_Witness ==
    /\ tickPc[1] = "idle"
    /\ dropped = {1}
    /\ activeOps = 0
    /\ omPath = "transport_error"
    /\ omOutcome = "failure"
    /\ nDropped = {1}

\* C15: once a read on a client has failed with a transport error, no later
\* acquire hands out that same client: neither readNodes's GetSafely nor the
\* ReadNode's initClient.
C15_FreshConnectAfterDrop ==
    [][ /\ \A t \in Ticks :
            (tickPc[t] = "acquire" /\ tickPc'[t] = "read") =>
                tickClient'[t] \notin dropped
        /\ \A c \in Callers :
            (callerPc[c] # "ret" /\ callerPc'[c] = "ret") =>
                callerRet'[c] \notin nDropped ]_vars

\* C16: a callback never is inside readNodes with a nil router argument,
\* however RemoveRouter interleaves with it.
C16_NeverReadsWithNilRouter ==
    \A t \in Ticks : t \in InFlight => tickRouter[t] # NoRouter

\* C17 as stated: a Start that replaces a schedule removes the recorded entry
\* from the current driver and does not stop any driver.
C17_StartRemovesEntry ==
    [][ (StartStep /\ cronTask # NoCron) =>
            /\ taskId # 0 => taskId \notin cronEntries'[cronTask]
            /\ cronRunning \subseteq cronRunning' ]_vars

\* C17 amended: a Start that replaces a schedule stops the previous driver
\* and leaves its entries registered in it, and runs a new driver; an entry
\* is removed from a driver only by Close (Close, Destroy, GracefulStop),
\* which removes the recorded entry of the current driver and stops it.
C17_StartStopsPreviousDriver ==
    [][ /\ (StartStep /\ cronTask # NoCron) =>
            /\ cronTask \notin cronRunning'
            /\ cronEntries'[cronTask] = cronEntries[cronTask]
            /\ cronTask' \in cronRunning'
        /\ (\E d \in Crons : ~(cronEntries[d] \subseteq cronEntries'[d])) =>
            /\ stopCalls' # stopCalls \/ stopCalls = 2
            /\ ~StartStep
            /\ cronEntries'[cronTask] = cronEntries[cronTask] \ {taskId}
            /\ cronTask \notin cronRunning' ]_vars

\* C17 witness: Start has replaced a running schedule; the first driver is
\* stopped and still holds its entry, the second runs.
C17_Witness ==
    /\ cronTask = 2
    /\ cronRunning = {2}
    /\ cronEntries[1] = {1}
    /\ cronEntries[2] = {1}
    /\ taskId = 1

\* C18: a Start whose initialization of the SharedNode fails (no client
\* could be connected) returns an error.
C18_StartReturnsInitError ==
    [][ (StartStep /\ ~snInit /\ snClient' = NoClient) => startRet' = "err" ]_vars

\* C19: a Start with an invalid interval returns an error and registers
\* nothing (the entry id recorded is 0, the new driver holds no entry), and
\* while the interval is invalid no driver fires and no callback runs.
C19_InvalidIntervalFailsFast ==
    /\ [][ (StartStep /\ ~intervalOk) =>
                /\ startRet' = "err"
                /\ taskId' = 0
                /\ cronEntries'[cronTask'] = {}
                /\ ~CronFires' ]_vars
    /\ [](~intervalOk =>
                /\ ~CronFires
                /\ \A t \in Ticks : tickPc[t] = "idle" /\ activeOps = 0)

\* C19 witness: two Starts with an invalid interval; the second driver runs
\* without an entry and Start returned the error.
C19_Witness ==
    /\ ~intervalOk
    /\ cronTask = 2
    /\ cronRunning = {2}
    /\ startRet = "err"
    /\ taskId = 0

\* C20: an AddRouter call that attaches its router and returns success is
\* the only call past the checks: no other call is about to attach a router
\* and return success as well.
C20_OneAddRouterWins ==
    [][ \A a \in Adders :
          (adPc[a] = "set" /\ adPc'[a] = "ret") =>
              \A b \in Adders \ {a} : adPc[b] # "set" ]_vars

\* C21: every message handed to OnMsg is answered with one signal,
\* TellSuccess or TellFailure, whatever path OnMsg takes.
C21_OneOutcomeSignal ==
    omPath # "none" => omOutcome \in {"success", "failure"}

====
